---- MODULE Spec2Model ----
(***************************************************************************)
(* The worker pool of the concurrency tutorial (src/unnamed/part_009):     *)
(* main starts numWorkers goroutines, sends numJobs Jobs on the buffered   *)
(* channel `jobs`, closes it, and then receives numJobs Results from the   *)
(* buffered channel `results`.  Each worker ranges over `jobs`, sleeps,    *)
(* and sends one Result per Job.                                           *)
(*                                                                         *)
(* The channel operations are modelled by what the Go runtime does with    *)
(* them: a send on a full channel blocks, a send on a closed channel and a *)
(* second close panic, a receive on a closed and empty channel returns     *)
(* ok = false.  When main returns the program exits and every goroutine    *)
(* stops where it is; a panic ends the program as well.                    *)
(***************************************************************************)
EXTENDS Naturals, Sequences, FiniteSets

VARIABLES
    mpc,        \* main's position: "spawn", "produce", "collect", "done"
    w,          \* main's loop variable of the worker-start loop
    j,          \* main's loop variable of the producer loop
    i,          \* main's loop variable of the collection loop
    jobs,       \* the jobs channel: [buf, cap, closed]
    results,    \* the results channel: [buf, cap, closed]
    wpc,        \* wpc[k]: position of worker k: "range", "work", "send", "stopped"
    wjob,       \* wjob[k]: the Job worker k holds, NoJob when it holds none
    collected,  \* the Results main has received, in the order received
    enq,        \* history: IDs of the Jobs sent on jobs, in send order
    deq,        \* history: IDs of the Jobs received from jobs, in receive order
    closes,     \* history: number of close operations performed on jobs
    panicked,   \* TRUE once a goroutine has panicked (the program has crashed)
    lastOp      \* the last operation a direct client did on jobs (QueueSpec only)

poolVars == <<mpc, w, j, i, jobs, results, wpc, wjob, collected, enq, deq,
              closes, panicked, lastOp>>

VARIABLES
    dropped     \* IDs of the Jobs a non-blocking send reported as dropped

\* The context program (src/unnamed/part_010, second file): main derives ctx
\* with a timeout and ctx2 with a cancel function from context.Background()
\* and runs makeRequest under each.
VARIABLES
    ctxs,        \* ctxs[c]: [done, err] of context c
    first,       \* history: first[c] is the cause that reached c first
    cancelCalls, \* history: cancelCalls[c] counts the calls of c's cancel function
    now,         \* the clock
    cpc,         \* main's position: "idle", "req1", "req2", "exit", "done"
    spc,         \* the cancelling goroutine: "none", "sleep", "done"
    durs,        \* the durations: [T, D1, S, D2]
    t0,          \* the time at which the second request started
    reqlog       \* what makeRequest printed: [name, outcome, err]

ctxVars == <<ctxs, first, cancelCalls, now, cpc, spc, durs, t0, reqlog>>

\* the state of the programs other than the worker pool and its queue
\* The counter programs (SafeCounter / Counter with a mutex, AtomicCounter,
\* UnsafeCounter and the bare `counter++`): goroutines increment one shared
\* counter, main waits for all of them and reads the value.
VARIABLES
    cmode,      \* the counter used: "mutex", "atomic" or "unsafe"; "none" when idle
    cvalue,     \* the counter's value field
    cmu,        \* the goroutine holding the counter's mutex, 0 when it is free
    gpc,        \* gpc[g]: position of goroutine g: "inc", "read", "write", "unlock", "exit", "done"
    gtmp,       \* gtmp[g]: the value goroutine g read for its increment
    gleft,      \* gleft[g]: the increments goroutine g still has to do
    cwg,        \* the WaitGroup counter
    cmainpc,    \* main / the test: "idle", "wait", "value", "done"
    cresult     \* the value main read after the wait

counterVars == <<cmode, cvalue, cmu, gpc, gtmp, gleft, cwg, cmainpc, cresult>>

\* The channel pipeline (TestWorker_ChannelPipeline): a sender goroutine, one
\* worker and the receiving test, connected by two unbuffered channels.
VARIABLES
    pinputs,    \* the values the sender sends, in order
    psent,      \* the number of values the sender has handed over
    pclosed,    \* TRUE once the sender has closed input
    pwpc,       \* the pipeline worker: "idle", "range", "send", "stopped"
    pwval,      \* the value the pipeline worker holds
    presults,   \* the values the test has received from output, in order
    ppc         \* the test: "idle", "recv", "done"

pipeVars == <<pinputs, psent, pclosed, pwpc, pwval, presults, ppc>>


\* The retry functions (boundedRetry, retryWithBackoff, retryWithJitter):
\* one call of one of them.  The context of the call is ctx with its
\* timeout; time is counted in units of half the base delay (50ms).
VARIABLES
    rfn,        \* the function called: "bounded", "backoff", "jitter"; "none" when idle
    rmax,       \* maxAttempts
    rattempt,   \* the loop variable attempt
    rpc,        \* position: "idle", "loop", "wait", "returned"
    rerrs,      \* history: what flakyOperation returned, one entry per call
    rwaits,     \* history: number of backoff waits started
    rwaitEnd,   \* the time at which the current backoff delay has elapsed
    rtimeout,   \* the timeout of the context
    rresult     \* the error returned: "none" until the function returns

retryVars == <<rfn, rmax, rattempt, rpc, rerrs, rwaits, rwaitEnd, rtimeout,
               rresult>>

\* The select patterns (src/unnamed/part_008, main): the racing channels,
\* the timeout pattern and the stop-signal loop, run one after the other.
VARIABLES
    smpc,       \* main's position: "idle", "race", "timeout", "select", "work", "returned"
    snow,       \* the clock
    sdur,       \* the durations: [F, Sl, Q, TO, S, W]
    sgpc,       \* sgpc[g]: position of goroutine g: "none", "sleep", "send", "done"
    swake,      \* swake[g]: the time at which goroutine g's sleep ends
    stimeout,   \* the time at which time.After of the timeout pattern fires
    sworkEnd,   \* the time at which the current unit of work ends
    stopClosed, \* TRUE once stopCh is closed
    swork,      \* the variable work: units of work started
    slog        \* the lines main printed for its selects

selVars == <<smpc, snow, sdur, sgpc, swake, stimeout, sworkEnd, stopClosed,
             swork, slog>>

\* The defer and panic demonstration (defer_panic_main.go): the call stack
\* of the one goroutine, its pending deferred calls and what it printed.
VARIABLES
    dstack,     \* the call stack: frames [fn, ip, defers, reg, ran], top last
    dpanic,     \* the value of the panic being propagated, "none" without one
    dout,       \* the lines printed so far
    dstatus,    \* "idle", "running", "exited" (main returned) or "crashed"
    dloops,     \* the number of iterations of the loop that defers
    dcreateFails \* TRUE when os.Create returns an error

deferVars == <<dstack, dpanic, dout, dstatus, dloops, dcreateFails>>

extVars == <<retryVars, selVars, deferVars>>

programVars == <<ctxVars, counterVars, pipeVars, extVars>>

otherVars == <<dropped, programVars>>

vars == <<poolVars, otherVars>>

----------------------------------------------------------------------------
(* Configuration.  The source runs 3 workers on 10 jobs; the model keeps   *)
(* the same program with smaller numbers.                                  *)

numWorkers == 2

numJobs == 4

\* The source builds the jobs channel with capacity numJobs.  The capacity
\* is a construction parameter of the queue, so the model builds the queue
\* with every capacity from 1 up to the source's own choice.
QueueCapacities == 1..numJobs

JobIDs == 1..numJobs

NoJob == [ID |-> 0, Filename |-> <<>>]

\* Job{ID: j, Filename: fmt.Sprintf("data_%d.csv", j)}
Job(id) == [ID |-> id, Filename |-> <<"data_", id, ".csv">>]

\* Result{JobID: job.ID, Status: "Success", Duration: ...}; the wall-clock
\* Duration is not part of the state.
Result(job) == [JobID |-> job.ID, Status |-> "Success"]

----------------------------------------------------------------------------
(* Go channels.                                                            *)

\* make(chan T, c)
MakeChan(c) == [buf |-> <<>>, cap |-> c, closed |-> FALSE]

Full(ch) == Len(ch.buf) >= ch.cap

\* ch <- v
SendOverwrite(ch, v) ==
    IF ch.closed THEN [ch |-> ch, outcome |-> "panic"]
    ELSE IF Len(ch.buf) < ch.cap
         THEN [ch |-> [ch EXCEPT !.buf = Append(@, v)], outcome |-> "ok"]
         ELSE [ch |-> [ch EXCEPT !.buf = Append(Tail(@), v)], outcome |-> "ok"]

SendUnbounded(ch, v) ==
    IF ch.closed THEN [ch |-> ch, outcome |-> "panic"]
    ELSE [ch |-> [ch EXCEPT !.buf = Append(@, v)], outcome |-> "ok"]

ChanSend(ch, v) ==
    IF ch.closed THEN [ch |-> ch, outcome |-> "panic"]
    ELSE IF Len(ch.buf) < ch.cap
         THEN [ch |-> [ch EXCEPT !.buf = Append(@, v)], outcome |-> "ok"]
         ELSE [ch |-> ch, outcome |-> "block"]

\* v, ok := <-ch
RecvLast(ch) ==
    IF ch.buf # <<>>
    THEN [ch |-> [ch EXCEPT !.buf = SubSeq(@, 1, Len(@) - 1)],
          val |-> ch.buf[Len(ch.buf)], ok |-> TRUE, outcome |-> "ok"]
    ELSE IF ch.closed
         THEN [ch |-> ch, val |-> NoJob, ok |-> FALSE, outcome |-> "ok"]
         ELSE [ch |-> ch, val |-> NoJob, ok |-> FALSE, outcome |-> "block"]

RecvNoRemove(ch) ==
    IF ch.buf # <<>>
    THEN [ch |-> ch, val |-> Head(ch.buf), ok |-> TRUE, outcome |-> "ok"]
    ELSE IF ch.closed
         THEN [ch |-> ch, val |-> NoJob, ok |-> FALSE, outcome |-> "ok"]
         ELSE [ch |-> ch, val |-> NoJob, ok |-> FALSE, outcome |-> "block"]

ChanRecv(ch) ==
    IF ch.buf # <<>>
    THEN [ch |-> [ch EXCEPT !.buf = Tail(@)],
          val |-> Head(ch.buf), ok |-> TRUE, outcome |-> "ok"]
    ELSE IF ch.closed
         THEN [ch |-> ch, val |-> NoJob, ok |-> FALSE, outcome |-> "ok"]
         ELSE [ch |-> ch, val |-> NoJob, ok |-> FALSE, outcome |-> "block"]

\* close(ch)
CloseDiscard(ch) ==
    IF ch.closed THEN [ch |-> ch, outcome |-> "panic"]
    ELSE [ch |-> [ch EXCEPT !.closed = TRUE, !.buf = <<>>], outcome |-> "ok"]

ChanClose(ch) ==
    IF ch.closed THEN [ch |-> ch, outcome |-> "panic"]
    ELSE [ch |-> [ch EXCEPT !.closed = TRUE], outcome |-> "ok"]

----------------------------------------------------------------------------
(* Contexts.  Background is the root; ctx = WithTimeout(Background, T) and  *)
(* ctx2 = WithCancel(Background) are the contexts main creates.  No context *)
(* of the program is derived from ctx or ctx2.                              *)

ContextNames == {"bg", "ctx", "ctx2"}

Parent(c) ==
    CASE c = "ctx" -> "bg"
      [] c = "ctx2" -> "bg"
      [] OTHER -> "none"

Ancestors(c) == {Parent(c), Parent(Parent(c))} \ {"none"}

Descendants(c) == {d \in ContextNames : c \in Ancestors(d)}

\* the contexts a cancellation of c reaches: c and everything derived from it
Affected(c) == {c} \cup Descendants(c)

ActiveContext == [done |-> FALSE, err |-> "nil"]

\* cancel() of c, or c's deadline passing, with the given cause: the first
\* cause wins, a done context is left as it is.
CtxFireAgain(cs, c, cause) ==
    [x \in ContextNames |->
        IF x = c \/ (x \in Affected(c) /\ ~cs[x].done)
        THEN [done |-> TRUE, err |-> cause]
        ELSE cs[x]]

CtxFire(cs, c, cause) ==
    IF cs[c].done THEN cs
    ELSE [x \in ContextNames |->
            IF x \in Affected(c) /\ ~cs[x].done
            THEN [done |-> TRUE, err |-> cause]
            ELSE cs[x]]

\* ctx.Done() is ready
Done(cs, c) == cs[c].done

\* ctx.Err()
ErrCanceledOnly(cs, c) == IF cs[c].done THEN "Canceled" ELSE "nil"

Err(cs, c) == cs[c].err

NoDurations == [T |-> 0, D1 |-> 0, S |-> 0, D2 |-> 0]

\* the context program not running
CtxIdle ==
    /\ ctxs = [c \in ContextNames |-> ActiveContext]
    /\ first = [c \in ContextNames |-> "nil"]
    /\ cancelCalls = [c \in ContextNames |-> 0]
    /\ now = 0
    /\ cpc = "idle"
    /\ spc = "none"
    /\ durs = NoDurations
    /\ t0 = 0
    /\ reqlog = <<>>

CounterIdle ==
    /\ cmode = "none"
    /\ cvalue = 0
    /\ cmu = 0
    /\ gpc = <<>>
    /\ gtmp = <<>>
    /\ gleft = <<>>
    /\ cwg = 0
    /\ cmainpc = "idle"
    /\ cresult = 0

PipeIdle ==
    /\ pinputs = <<>>
    /\ psent = 0
    /\ pclosed = FALSE
    /\ pwpc = "idle"
    /\ pwval = 0
    /\ presults = <<>>
    /\ ppc = "idle"

RetryIdle ==
    /\ rfn = "none"
    /\ rmax = 0
    /\ rattempt = 0
    /\ rpc = "idle"
    /\ rerrs = <<>>
    /\ rwaits = 0
    /\ rwaitEnd = 0
    /\ rtimeout = 0
    /\ rresult = "none"

SelectGoroutines == {"fast", "slow", "db", "stop"}

NoSelectDurations == [F |-> 0, Sl |-> 0, Q |-> 0, TO |-> 0, S |-> 0, W |-> 0]

SelectIdle ==
    /\ smpc = "idle"
    /\ snow = 0
    /\ sdur = NoSelectDurations
    /\ sgpc = [g \in SelectGoroutines |-> "none"]
    /\ swake = [g \in SelectGoroutines |-> 0]
    /\ stimeout = 0
    /\ sworkEnd = 0
    /\ stopClosed = FALSE
    /\ swork = 0
    /\ slog = <<>>

DeferIdle ==
    /\ dstack = <<>>
    /\ dpanic = "none"
    /\ dout = <<>>
    /\ dstatus = "idle"
    /\ dloops = 0
    /\ dcreateFails = FALSE

ExtIdle ==
    /\ RetryIdle
    /\ SelectIdle
    /\ DeferIdle

----------------------------------------------------------------------------
(* The program runs until main returns or a goroutine panics.              *)

Running == mpc # "done" /\ ~panicked

SmallerResults == numJobs - 1

\* results := make(chan Result, numJobs)
ResultsCapacity == numJobs

NoOp == [op |-> "none", closedBefore |-> FALSE, outcome |-> "none"]

Init ==
    /\ mpc = "spawn"
    /\ w = 1
    /\ j = 1
    /\ i = 1
    /\ \E c \in QueueCapacities : jobs = MakeChan(c)
    /\ results = MakeChan(ResultsCapacity)
    /\ wpc = <<>>
    /\ wjob = <<>>
    /\ collected = <<>>
    /\ enq = <<>>
    /\ deq = <<>>
    /\ closes = 0
    /\ panicked = FALSE
    /\ lastOp = NoOp
    /\ dropped = <<>>
    /\ CtxIdle
    /\ CounterIdle
    /\ PipeIdle
    /\ ExtIdle

----------------------------------------------------------------------------
(* main                                                                    *)

\* for w := 1; w <= numWorkers; w++
SpawnPerJob(wv) == wv <= numJobs

SpawnMore(wv) == wv <= numWorkers

\* for j := 1; j <= numJobs; j++
ProduceMore(jv) == jv <= numJobs

\* for i := 1; i <= numJobs; i++
CollectMore(iv) == iv <= numJobs

\* go worker(w, jobs, results)
MainSpawn ==
    /\ Running
    /\ mpc = "spawn"
    /\ SpawnMore(w)
    /\ wpc' = Append(wpc, "range")
    /\ wjob' = Append(wjob, NoJob)
    /\ w' = w + 1
    /\ UNCHANGED <<mpc, j, i, jobs, results, collected, enq, deq, closes,
                   panicked, lastOp>>
    /\ UNCHANGED otherVars

MainSpawnEnd ==
    /\ Running
    /\ mpc = "spawn"
    /\ ~SpawnMore(w)
    /\ mpc' = "produce"
    /\ UNCHANGED <<w, j, i, jobs, results, wpc, wjob, collected, enq, deq,
                   closes, panicked, lastOp>>
    /\ UNCHANGED otherVars

\* jobs <- Job{ID: j, ...}
MainProduce ==
    /\ Running
    /\ mpc = "produce"
    /\ ProduceMore(j)
    /\ LET r == ChanSend(jobs, Job(j)) IN
       /\ r.outcome # "block"
       /\ jobs' = r.ch
       /\ IF r.outcome = "ok"
          THEN /\ j' = j + 1
               /\ enq' = Append(enq, j)
               /\ panicked' = panicked
          ELSE /\ panicked' = TRUE
               /\ UNCHANGED <<j, enq>>
    /\ UNCHANGED <<mpc, w, i, results, wpc, wjob, collected, deq, closes, lastOp>>
    /\ UNCHANGED otherVars

\* close(jobs)
MainClose ==
    /\ Running
    /\ mpc = "produce"
    /\ ~ProduceMore(j)
    /\ LET r == ChanClose(jobs) IN
       /\ jobs' = r.ch
       /\ closes' = closes + 1
       /\ IF r.outcome = "ok"
          THEN /\ mpc' = "collect"
               /\ panicked' = panicked
          ELSE /\ panicked' = TRUE
               /\ mpc' = mpc
    /\ UNCHANGED <<w, j, i, results, wpc, wjob, collected, enq, deq, lastOp>>
    /\ UNCHANGED otherVars

\* res := <-results
MainCollect ==
    /\ Running
    /\ mpc = "collect"
    /\ CollectMore(i)
    /\ LET r == ChanRecv(results) IN
       /\ r.outcome # "block"
       /\ results' = r.ch
       /\ collected' = Append(collected, r.val)
       /\ i' = i + 1
    /\ UNCHANGED <<mpc, w, j, jobs, wpc, wjob, enq, deq, closes, panicked, lastOp>>
    /\ UNCHANGED otherVars

\* main returns: the program exits
MainReturn ==
    /\ Running
    /\ mpc = "collect"
    /\ ~CollectMore(i)
    /\ mpc' = "done"
    /\ UNCHANGED <<w, j, i, jobs, results, wpc, wjob, collected, enq, deq,
                   closes, panicked, lastOp>>
    /\ UNCHANGED otherVars

Main ==
    \/ MainSpawn
    \/ MainSpawnEnd
    \/ MainProduce
    \/ MainClose
    \/ MainCollect
    \/ MainReturn

----------------------------------------------------------------------------
(* worker                                                                  *)

\* for job := range jobs
WorkerRecvAndClose(k) ==
    /\ Running
    /\ k \in 1..Len(wpc)
    /\ wpc[k] = "range"
    /\ LET r == ChanRecv(jobs) IN
       /\ r.outcome # "block"
       /\ IF r.ok
          THEN /\ jobs' = [r.ch EXCEPT !.closed = TRUE]
               /\ closes' = closes + 1
               /\ wpc' = [wpc EXCEPT ![k] = "work"]
               /\ wjob' = [wjob EXCEPT ![k] = r.val]
               /\ deq' = Append(deq, r.val.ID)
          ELSE /\ jobs' = r.ch
               /\ closes' = closes
               /\ wpc' = [wpc EXCEPT ![k] = "stopped"]
               /\ UNCHANGED <<wjob, deq>>
    /\ UNCHANGED <<mpc, w, j, i, results, collected, enq, panicked, lastOp>>
    /\ UNCHANGED otherVars

WorkerRecv(k) ==
    /\ Running
    /\ k \in 1..Len(wpc)
    /\ wpc[k] = "range"
    /\ LET r == ChanRecv(jobs) IN
       /\ r.outcome # "block"
       /\ jobs' = r.ch
       /\ IF r.ok
          THEN /\ wpc' = [wpc EXCEPT ![k] = "work"]
               /\ wjob' = [wjob EXCEPT ![k] = r.val]
               /\ deq' = Append(deq, r.val.ID)
          ELSE /\ wpc' = [wpc EXCEPT ![k] = "stopped"]
               /\ UNCHANGED <<wjob, deq>>
    /\ UNCHANGED <<mpc, w, j, i, results, collected, enq, closes, panicked, lastOp>>
    /\ UNCHANGED otherVars

\* time.Sleep(500 * time.Millisecond)
WorkerWork(k) ==
    /\ Running
    /\ k \in 1..Len(wpc)
    /\ wpc[k] = "work"
    /\ wpc' = [wpc EXCEPT ![k] = "send"]
    /\ UNCHANGED <<mpc, w, j, i, jobs, results, wjob, collected, enq, deq,
                   closes, panicked, lastOp>>
    /\ UNCHANGED otherVars

\* results <- Result{JobID: job.ID, ...}
WorkerSend(k) ==
    /\ Running
    /\ k \in 1..Len(wpc)
    /\ wpc[k] = "send"
    /\ LET r == ChanSend(results, Result(wjob[k])) IN
       /\ r.outcome # "block"
       /\ results' = r.ch
       /\ IF r.outcome = "ok"
          THEN /\ wpc' = [wpc EXCEPT ![k] = "range"]
               /\ wjob' = [wjob EXCEPT ![k] = NoJob]
               /\ panicked' = panicked
          ELSE /\ panicked' = TRUE
               /\ UNCHANGED <<wpc, wjob>>
    /\ UNCHANGED <<mpc, w, j, i, jobs, collected, enq, deq, closes, lastOp>>
    /\ UNCHANGED otherVars

Worker(k) ==
    \/ WorkerRecv(k)
    \/ WorkerWork(k)
    \/ WorkerSend(k)

Next ==
    \/ Main
    \/ \E k \in 1..Len(wpc) : Worker(k)

Spec == Init /\ [][Next]_vars

\* The Go scheduler runs every runnable goroutine eventually.
FairSpec ==
    /\ Init
    /\ [][Next]_vars
    /\ WF_vars(Main)
    /\ \A k \in 1..numWorkers : WF_vars(Worker(k))

----------------------------------------------------------------------------
(* The jobs queue used directly: a caller that sends the Jobs 1..numJobs    *)
(* (blocking, or non-blocking through select with a default branch),       *)
(* receives and closes in any order, as the channel operations allow it.    *)
(* lastOp records the operation, whether the queue was closed when it was   *)
(* attempted, and how it ended.                                             *)

\* jobs <- Job{ID: j, ...}
ClientSend ==
    /\ ~panicked
    /\ ProduceMore(j)
    /\ LET r == ChanSend(jobs, Job(j)) IN
       /\ r.outcome # "block"
       /\ jobs' = r.ch
       /\ panicked' = (r.outcome = "panic")
       /\ lastOp' = [op |-> "send", closedBefore |-> jobs.closed,
                     outcome |-> r.outcome]
       /\ IF r.outcome = "ok"
          THEN j' = j + 1 /\ enq' = Append(enq, j)
          ELSE UNCHANGED <<j, enq>>
    /\ UNCHANGED <<mpc, w, i, results, wpc, wjob, collected, deq, closes>>
    /\ UNCHANGED otherVars

\* job, ok := <-jobs
ClientRecv ==
    /\ ~panicked
    /\ LET r == ChanRecv(jobs) IN
       /\ r.outcome # "block"
       /\ jobs' = r.ch
       /\ lastOp' = [op |-> "recv", closedBefore |-> jobs.closed,
                     outcome |-> IF r.ok THEN "ok" ELSE "closed"]
       /\ IF r.ok
          THEN deq' = Append(deq, r.val.ID)
          ELSE deq' = deq
    /\ UNCHANGED <<mpc, w, j, i, results, wpc, wjob, collected, enq, closes,
                   panicked>>
    /\ UNCHANGED otherVars

\* close(jobs)
ClientClose ==
    /\ ~panicked
    /\ LET r == ChanClose(jobs) IN
       /\ jobs' = r.ch
       /\ closes' = closes + 1
       /\ panicked' = (r.outcome = "panic")
       /\ lastOp' = [op |-> "close", closedBefore |-> jobs.closed,
                     outcome |-> r.outcome]
    /\ UNCHANGED <<mpc, w, j, i, results, wpc, wjob, collected, enq, deq>>
    /\ UNCHANGED otherVars

\* select { case queue <- j: ...  default: "Queue full, dropping job" }
ClientOfferSilent ==
    /\ ~panicked
    /\ ProduceMore(j)
    /\ LET r == ChanSend(jobs, Job(j)) IN
       /\ jobs' = r.ch
       /\ panicked' = (r.outcome = "panic")
       /\ lastOp' = [op |-> "offer", closedBefore |-> jobs.closed,
                     outcome |-> IF r.outcome = "block" THEN "dropped"
                                 ELSE r.outcome]
       /\ IF r.outcome = "ok"
          THEN j' = j + 1 /\ enq' = Append(enq, j)
          ELSE IF r.outcome = "block"
               THEN j' = j + 1 /\ enq' = enq
               ELSE UNCHANGED <<j, enq>>
    /\ UNCHANGED <<mpc, w, i, results, wpc, wjob, collected, deq, closes, dropped>>
    /\ UNCHANGED programVars

ClientOffer ==
    /\ ~panicked
    /\ ProduceMore(j)
    /\ LET r == ChanSend(jobs, Job(j)) IN
       /\ jobs' = r.ch
       /\ panicked' = (r.outcome = "panic")
       /\ lastOp' = [op |-> "offer", closedBefore |-> jobs.closed,
                     outcome |-> IF r.outcome = "block" THEN "dropped"
                                 ELSE r.outcome]
       /\ IF r.outcome = "ok"
          THEN j' = j + 1 /\ enq' = Append(enq, j) /\ dropped' = dropped
          ELSE IF r.outcome = "block"
               THEN j' = j + 1 /\ enq' = enq /\ dropped' = Append(dropped, j)
               ELSE UNCHANGED <<j, enq, dropped>>
    /\ UNCHANGED <<mpc, w, i, results, wpc, wjob, collected, deq, closes>>
    /\ UNCHANGED programVars

QueueNext ==
    \/ ClientSend
    \/ ClientOffer
    \/ ClientRecv
    \/ ClientClose

QueueSpec == Init /\ [][QueueNext]_vars

----------------------------------------------------------------------------
(* The context program: main of src/unnamed/part_010 (second file).         *)
(* Time passes only when no goroutine can take a step.  The durations are   *)
(* drawn from 1..MaxDur; the source uses T = 2s, D1 = 5s, S = 1s, D2 = 10s. *)

MaxDur == 2

CtxRunning == cpc \in {"req1", "req2", "exit"}

\* the contexts that the cause of c's cancellation reaches for the first time
FirstAfter(c, cause) ==
    [x \in ContextNames |->
        IF first[x] = "nil" /\ (x = c \/ c \in Ancestors(x))
        THEN cause ELSE first[x]]

\* ctx, cancel := context.WithTimeout(context.Background(), T); ctx2 is
\* present from the start, not yet cancelled, and unused until request 2.
CtxInit ==
    /\ ctxs = [c \in ContextNames |-> ActiveContext]
    /\ first = [c \in ContextNames |-> "nil"]
    /\ cancelCalls = [c \in ContextNames |-> 0]
    /\ now = 0
    /\ cpc = "req1"
    /\ spc = "none"
    /\ durs \in [T : 1..MaxDur, D1 : 1..MaxDur, S : 1..MaxDur, D2 : 1..MaxDur]
    /\ t0 = 0
    /\ reqlog = <<>>

\* the deadline of ctx passes
CtxDeadline ==
    /\ CtxRunning
    /\ now >= durs.T
    /\ ~ctxs["ctx"].done
    /\ ctxs' = CtxFire(ctxs, "ctx", "DeadlineExceeded")
    /\ first' = FirstAfter("ctx", "DeadlineExceeded")
    /\ UNCHANGED <<cancelCalls, now, cpc, spc, durs, t0, reqlog>>
    /\ UNCHANGED <<poolVars, dropped, counterVars, pipeVars, extVars>>

\* a request that sleeps for its duration and never looks at the context
MakeRequestSleepOnly(c, endTime) ==
    IF now >= endTime
    THEN {[outcome |-> "completed", err |-> "nil"]} ELSE {}

\* select { case <-time.After(duration): ...  case <-ctx.Done(): ... }
\* the branches makeRequest can take at this moment
MakeRequestOutcomes(c, endTime) ==
    (IF now >= endTime
     THEN {[outcome |-> "completed", err |-> "nil"]} ELSE {})
    \cup
    (IF Done(ctxs, c)
     THEN {[outcome |-> "aborted", err |-> Err(ctxs, c)]} ELSE {})

\* makeRequest(ctx, "Slow-API-Call", D1); then ctx2 is created and the
\* cancelling goroutine is started
Request1 ==
    /\ cpc = "req1"
    /\ \E o \in MakeRequestOutcomes("ctx", durs.D1) :
         reqlog' = Append(reqlog, [name |-> "Slow-API-Call",
                                   outcome |-> o.outcome, err |-> o.err,
                                   at |-> now])
    /\ cpc' = "req2"
    /\ spc' = "sleep"
    /\ t0' = now
    /\ UNCHANGED <<ctxs, first, cancelCalls, now, durs>>
    /\ UNCHANGED <<poolVars, dropped, counterVars, pipeVars, extVars>>

\* go func() { time.Sleep(S); stop() }()
StopCall ==
    /\ CtxRunning
    /\ spc = "sleep"
    /\ now >= t0 + durs.S
    /\ ctxs' = CtxFire(ctxs, "ctx2", "Canceled")
    /\ first' = FirstAfter("ctx2", "Canceled")
    /\ cancelCalls' = [cancelCalls EXCEPT !["ctx2"] = @ + 1]
    /\ spc' = "done"
    /\ UNCHANGED <<now, cpc, durs, t0, reqlog>>
    /\ UNCHANGED <<poolVars, dropped, counterVars, pipeVars, extVars>>

\* makeRequest(ctx2, "Long-Running-Task", D2)
Request2 ==
    /\ cpc = "req2"
    /\ \E o \in MakeRequestOutcomes("ctx2", t0 + durs.D2) :
         reqlog' = Append(reqlog, [name |-> "Long-Running-Task",
                                   outcome |-> o.outcome, err |-> o.err,
                                   at |-> now])
    /\ cpc' = "exit"
    /\ UNCHANGED <<ctxs, first, cancelCalls, now, spc, durs, t0>>
    /\ UNCHANGED <<poolVars, dropped, counterVars, pipeVars, extVars>>

\* defer cancel(): runs when main returns; then the program exits
DeferredCancel ==
    /\ cpc = "exit"
    /\ ctxs' = CtxFire(ctxs, "ctx", "Canceled")
    /\ first' = FirstAfter("ctx", "Canceled")
    /\ cancelCalls' = [cancelCalls EXCEPT !["ctx"] = @ + 1]
    /\ cpc' = "done"
    /\ UNCHANGED <<now, spc, durs, t0, reqlog>>
    /\ UNCHANGED <<poolVars, dropped, counterVars, pipeVars, extVars>>

\* a goroutine of the context program can take a step at this moment
CtxStepReady ==
    \/ (now >= durs.T /\ ~ctxs["ctx"].done)
    \/ (cpc = "req1" /\ MakeRequestOutcomes("ctx", durs.D1) # {})
    \/ (cpc = "req2" /\ MakeRequestOutcomes("ctx2", t0 + durs.D2) # {})
    \/ (spc = "sleep" /\ now >= t0 + durs.S)
    \/ cpc = "exit"

Tick ==
    /\ CtxRunning
    /\ ~CtxStepReady
    /\ now' = now + 1
    /\ UNCHANGED <<ctxs, first, cancelCalls, cpc, spc, durs, t0, reqlog>>
    /\ UNCHANGED <<poolVars, dropped, counterVars, pipeVars, extVars>>

\* the worker pool before main has started it
PoolIdle ==
    /\ mpc = "spawn" /\ w = 1 /\ j = 1 /\ i = 1
    /\ jobs = MakeChan(numJobs)
    /\ results = MakeChan(ResultsCapacity)
    /\ wpc = <<>> /\ wjob = <<>> /\ collected = <<>>
    /\ enq = <<>> /\ deq = <<>> /\ closes = 0
    /\ panicked = FALSE /\ lastOp = NoOp
    /\ dropped = <<>>

ContextInit ==
    /\ PoolIdle
    /\ CounterIdle
    /\ PipeIdle
    /\ ExtIdle
    /\ CtxInit

ContextNext ==
    \/ CtxDeadline
    \/ Request1
    \/ StopCall
    \/ Request2
    \/ DeferredCancel
    \/ Tick

ContextSpec == ContextInit /\ [][ContextNext]_vars

\* timers fire and runnable goroutines are scheduled
FairContextSpec ==
    /\ ContextSpec
    /\ WF_vars(Tick)
    /\ WF_vars(CtxDeadline)
    /\ WF_vars(StopCall)
    /\ WF_vars(Request1)
    /\ WF_vars(Request2)
    /\ WF_vars(DeferredCancel)

----------------------------------------------------------------------------
(* The worker pool of src/unnamed/part_009 run next to the stop() of        *)
(* src/unnamed/part_010: the pool's steps are those of Next, unchanged;     *)
(* worker takes no context, so a cancelled context is not observed by any   *)
(* of its steps.                                                            *)

\* stop(): the scope is cancelled while the pool runs
ScopeCancel ==
    /\ Running
    /\ ~Done(ctxs, "ctx2")
    /\ ctxs' = CtxFire(ctxs, "ctx2", "Canceled")
    /\ first' = [first EXCEPT !["ctx2"] = "Canceled"]
    /\ cancelCalls' = [cancelCalls EXCEPT !["ctx2"] = @ + 1]
    /\ UNCHANGED <<now, cpc, spc, durs, t0, reqlog>>
    /\ UNCHANGED <<poolVars, dropped, counterVars, pipeVars, extVars>>

CancelNext ==
    \/ Next
    \/ ScopeCancel

CancelSpec == Init /\ [][CancelNext]_vars

----------------------------------------------------------------------------
(* The counter programs: numGoroutines goroutines each call Inc             *)
(* incrementsPerG times on one shared counter; main waits on the WaitGroup  *)
(* and reads Value().  `value++` is a read, an addition and a write.        *)

numGoroutines == 2
incrementsPerG == 2

CounterModes == {"mutex", "atomic", "unsafe"}

CounterRunning == cmainpc \in {"spawn", "wait", "value"}

CounterInit ==
    /\ cmode \in CounterModes
    /\ cvalue = 0
    /\ cmu = 0
    /\ gpc = <<>>
    /\ gtmp = <<>>
    /\ gleft = <<>>
    /\ cwg = 0
    /\ cmainpc = "spawn"
    /\ cresult = 0

\* for i := 0; i < numGoroutines; i++ { wg.Add(1); go func() { ... }() }
CounterSpawn ==
    /\ cmainpc = "spawn"
    /\ IF Len(gpc) < numGoroutines
       THEN /\ cwg' = cwg + 1
            /\ gpc' = Append(gpc, IF incrementsPerG > 0 THEN "inc" ELSE "exit")
            /\ gtmp' = Append(gtmp, 0)
            /\ gleft' = Append(gleft, incrementsPerG)
            /\ UNCHANGED cmainpc
       ELSE /\ cmainpc' = "wait"
            /\ UNCHANGED <<cwg, gpc, gtmp, gleft>>
    /\ UNCHANGED <<cmode, cvalue, cmu, cresult>>
    /\ UNCHANGED <<poolVars, dropped, ctxVars, pipeVars, extVars>>

\* the position of goroutine g after one call of Inc has returned
AfterInc(g) == IF gleft[g] = 1 THEN "exit" ELSE "inc"

\* Inc without taking the mutex
IncNoLock(g) ==
    /\ cmode = "mutex"
    /\ gpc[g] = "inc"
    /\ gpc' = [gpc EXCEPT ![g] = "read"]
    /\ UNCHANGED <<cmode, cvalue, cmu, gtmp, gleft, cwg, cmainpc, cresult>>
    /\ UNCHANGED <<poolVars, dropped, ctxVars, pipeVars, extVars>>

\* c.mu.Lock()
IncLock(g) ==
    /\ cmode = "mutex"
    /\ gpc[g] = "inc"
    /\ cmu = 0
    /\ cmu' = g
    /\ gpc' = [gpc EXCEPT ![g] = "read"]
    /\ UNCHANGED <<cmode, cvalue, gtmp, gleft, cwg, cmainpc, cresult>>
    /\ UNCHANGED <<poolVars, dropped, ctxVars, pipeVars, extVars>>

\* atomic.AddInt64(&a.value, 1)
IncAtomic(g) ==
    /\ cmode = "atomic"
    /\ gpc[g] = "inc"
    /\ cvalue' = cvalue + 1
    /\ gleft' = [gleft EXCEPT ![g] = @ - 1]
    /\ gpc' = [gpc EXCEPT ![g] = AfterInc(g)]
    /\ UNCHANGED <<cmode, cmu, gtmp, cwg, cmainpc, cresult>>
    /\ UNCHANGED <<poolVars, dropped, ctxVars, pipeVars, extVars>>

\* value++ : read the value
IncRead(g) ==
    /\ \/ gpc[g] = "read"
       \/ cmode = "unsafe" /\ gpc[g] = "inc"
    /\ gtmp' = [gtmp EXCEPT ![g] = cvalue]
    /\ gpc' = [gpc EXCEPT ![g] = "write"]
    /\ UNCHANGED <<cmode, cvalue, cmu, gleft, cwg, cmainpc, cresult>>
    /\ UNCHANGED <<poolVars, dropped, ctxVars, pipeVars, extVars>>

\* an increment that adds to the current value in one step
IncWriteAtomic(g) ==
    /\ gpc[g] = "write"
    /\ cvalue' = cvalue + 1
    /\ IF cmode = "mutex"
       THEN /\ gpc' = [gpc EXCEPT ![g] = "unlock"]
            /\ UNCHANGED gleft
       ELSE /\ gpc' = [gpc EXCEPT ![g] = AfterInc(g)]
            /\ gleft' = [gleft EXCEPT ![g] = @ - 1]
    /\ UNCHANGED <<cmode, cmu, gtmp, cwg, cmainpc, cresult>>
    /\ UNCHANGED <<poolVars, dropped, ctxVars, pipeVars, extVars>>

\* value++ : write the value read plus one
IncWrite(g) ==
    /\ gpc[g] = "write"
    /\ cvalue' = gtmp[g] + 1
    /\ IF cmode = "mutex"
       THEN /\ gpc' = [gpc EXCEPT ![g] = "unlock"]
            /\ UNCHANGED gleft
       ELSE /\ gpc' = [gpc EXCEPT ![g] = AfterInc(g)]
            /\ gleft' = [gleft EXCEPT ![g] = @ - 1]
    /\ UNCHANGED <<cmode, cmu, gtmp, cwg, cmainpc, cresult>>
    /\ UNCHANGED <<poolVars, dropped, ctxVars, pipeVars, extVars>>

\* defer c.mu.Unlock()
IncUnlock(g) ==
    /\ gpc[g] = "unlock"
    /\ cmu' = 0
    /\ gleft' = [gleft EXCEPT ![g] = @ - 1]
    /\ gpc' = [gpc EXCEPT ![g] = AfterInc(g)]
    /\ UNCHANGED <<cmode, cvalue, gtmp, cwg, cmainpc, cresult>>
    /\ UNCHANGED <<poolVars, dropped, ctxVars, pipeVars, extVars>>

\* defer wg.Done()
GoroutineExit(g) ==
    /\ gpc[g] = "exit"
    /\ cwg' = cwg - 1
    /\ gpc' = [gpc EXCEPT ![g] = "done"]
    /\ UNCHANGED <<cmode, cvalue, cmu, gtmp, gleft, cmainpc, cresult>>
    /\ UNCHANGED <<poolVars, dropped, ctxVars, pipeVars, extVars>>

\* wg.Wait()
CounterWait ==
    /\ cmainpc = "wait"
    /\ cwg = 0
    /\ cmainpc' = "value"
    /\ UNCHANGED <<cmode, cvalue, cmu, gpc, gtmp, gleft, cwg, cresult>>
    /\ UNCHANGED <<poolVars, dropped, ctxVars, pipeVars, extVars>>

\* counter.Value()
CounterValue ==
    /\ cmainpc = "value"
    /\ cmode = "mutex" => cmu = 0
    /\ cresult' = cvalue
    /\ cmainpc' = "done"
    /\ UNCHANGED <<cmode, cvalue, cmu, gpc, gtmp, gleft, cwg>>
    /\ UNCHANGED <<poolVars, dropped, ctxVars, pipeVars, extVars>>

Goroutine(g) ==
    /\ CounterRunning
    /\ \/ IncLock(g)
       \/ IncAtomic(g)
       \/ IncRead(g)
       \/ IncWrite(g)
       \/ IncUnlock(g)
       \/ GoroutineExit(g)

CounterMain ==
    \/ CounterSpawn
    \/ CounterWait
    \/ CounterValue

CounterProgramInit ==
    /\ PoolIdle
    /\ CtxIdle
    /\ PipeIdle
    /\ ExtIdle
    /\ CounterInit

CounterNext ==
    \/ CounterMain
    \/ \E g \in 1..Len(gpc) : Goroutine(g)

CounterSpec == CounterProgramInit /\ [][CounterNext]_vars

----------------------------------------------------------------------------
(* The channel pipeline: a sender goroutine sends the inputs on the         *)
(* unbuffered channel input and closes it; worker ranges over input and     *)
(* sends v * 2 on the unbuffered channel output; the test receives as many  *)
(* values as were sent.  A send on an unbuffered channel and the matching   *)
(* receive happen together.                                                 *)

MaxInputs == 3
MaxInputValue == 3

InputSequences ==
    UNION {[1..n -> 1..MaxInputValue] : n \in 1..MaxInputs}

DoublePlus(v) == v + 2

\* v * 2
Double(v) == v * 2

PipeInit ==
    /\ pinputs \in InputSequences
    /\ psent = 0
    /\ pclosed = FALSE
    /\ pwpc = "range"
    /\ pwval = 0
    /\ presults = <<>>
    /\ ppc = "recv"

\* input <- i   together with   for v := range input
PipeSend ==
    /\ psent < Len(pinputs)
    /\ pwpc = "range"
    /\ pwval' = pinputs[psent + 1]
    /\ psent' = psent + 1
    /\ pwpc' = "send"
    /\ UNCHANGED <<pinputs, pclosed, presults, ppc>>
    /\ UNCHANGED <<poolVars, dropped, ctxVars, counterVars, extVars>>

\* defer close(input)
PipeClose ==
    /\ psent = Len(pinputs)
    /\ ~pclosed
    /\ pclosed' = TRUE
    /\ UNCHANGED <<pinputs, psent, pwpc, pwval, presults, ppc>>
    /\ UNCHANGED <<poolVars, dropped, ctxVars, counterVars, extVars>>

\* output <- v * 2   together with   results = append(results, <-output)
PipeEmit ==
    /\ pwpc = "send"
    /\ ppc = "recv"
    /\ Len(presults) < Len(pinputs)
    /\ presults' = Append(presults, Double(pwval))
    /\ pwpc' = "range"
    /\ UNCHANGED <<pinputs, psent, pclosed, pwval, ppc>>
    /\ UNCHANGED <<poolVars, dropped, ctxVars, counterVars, extVars>>

\* for v := range input ends: input is closed and empty
PipeWorkerStop ==
    /\ pwpc = "range"
    /\ pclosed
    /\ pwpc' = "stopped"
    /\ UNCHANGED <<pinputs, psent, pclosed, pwval, presults, ppc>>
    /\ UNCHANGED <<poolVars, dropped, ctxVars, counterVars, extVars>>

\* the receive loop of the test ends
PipeTestDone ==
    /\ ppc = "recv"
    /\ Len(presults) = Len(pinputs)
    /\ ppc' = "done"
    /\ UNCHANGED <<pinputs, psent, pclosed, pwpc, pwval, presults>>
    /\ UNCHANGED <<poolVars, dropped, ctxVars, counterVars, extVars>>

PipelineInit ==
    /\ PoolIdle
    /\ CtxIdle
    /\ CounterIdle
    /\ ExtIdle
    /\ PipeInit

PipelineNext ==
    \/ PipeSend
    \/ PipeClose
    \/ PipeEmit
    \/ PipeWorkerStop
    \/ PipeTestDone

PipelineSpec == PipelineInit /\ [][PipelineNext]_vars

FairPipelineSpec == PipelineSpec /\ WF_vars(PipelineNext)

----------------------------------------------------------------------------
(* The retry functions.  flakyOperation returns at once; time passes only   *)
(* while retryWithBackoff or retryWithJitter wait out a backoff delay in    *)
(* their select.  One time unit is half the base delay of 100ms.            *)

MaxAttempts == 3
MaxTimeout == 5

ErrTemporaryFailure == "temporary failure"
ErrPermanentFailure == "permanent failure"
ErrRetryLimit == "retry limit exceeded"

RetryFunctions == {"bounded", "backoff", "jitter"}

\* n := rand.Intn(10)
RandomDraws == 0..9

\* flakyOperation, for the number n it drew
FlakyOperation(n) ==
    IF n < 5 THEN ErrTemporaryFailure
    ELSE IF n < 7 THEN ErrPermanentFailure
    ELSE "nil"

NeverPermanent(err) == FALSE

\* errors.Is(err, ErrPermanentFailure)
IsPermanent(err) == err = ErrPermanentFailure

AttemptOneMore(attempt, maxAttempts) == attempt <= maxAttempts + 1

\* attempt <= maxAttempts
AttemptMore(attempt, maxAttempts) == attempt <= maxAttempts

\* math.Pow(2, n)
RECURSIVE Pow2(_)
Pow2(n) == IF n = 0 THEN 1 ELSE 2 * Pow2(n - 1)

\* the backoff delays the function can choose after the given attempt:
\* 2^(attempt-1) * baseDelay, with jitter multiplied by a factor in [0.5, 1.5)
Backoffs(fn, attempt) ==
    IF fn = "backoff"
    THEN {2 * Pow2(attempt - 1)}
    ELSE Pow2(attempt - 1) .. (3 * Pow2(attempt - 1) - 1)

WaitSleepOnly(endTime) ==
    IF now >= endTime THEN {"timer"} ELSE {}

\* select { case <-time.After(backoff): ...  case <-ctx.Done(): ... }
\* the cases that are ready at this moment
WaitOutcomes(endTime) ==
    (IF now >= endTime THEN {"timer"} ELSE {})
    \cup
    (IF Done(ctxs, "ctx") THEN {"ctx"} ELSE {})

RetryInit ==
    /\ rfn \in RetryFunctions
    /\ rmax \in 0..MaxAttempts
    /\ rattempt = 1
    /\ rpc = "loop"
    /\ rerrs = <<>>
    /\ rwaits = 0
    /\ rwaitEnd = 0
    /\ IF rfn = "bounded" THEN rtimeout = 0 ELSE rtimeout \in 1..MaxTimeout
    /\ rresult = "none"

\* the loop condition fails: return fmt.Errorf("retry limit exceeded")
RetryLoopExit ==
    /\ rpc = "loop"
    /\ ~AttemptMore(rattempt, rmax)
    /\ rresult' = ErrRetryLimit
    /\ rpc' = "returned"
    /\ UNCHANGED <<rfn, rmax, rattempt, rerrs, rwaits, rwaitEnd, rtimeout>>
    /\ UNCHANGED <<poolVars, dropped, ctxVars, counterVars, pipeVars, selVars, deferVars>>

\* one iteration up to the select: err := flakyOperation() and the checks
RetryAttempt ==
    /\ rpc = "loop"
    /\ AttemptMore(rattempt, rmax)
    /\ \E n \in RandomDraws :
         LET err == FlakyOperation(n) IN
         /\ rerrs' = Append(rerrs, err)
         /\ IF err = "nil"
            THEN /\ rresult' = "nil"
                 /\ rpc' = "returned"
                 /\ UNCHANGED <<rattempt, rwaits, rwaitEnd>>
            ELSE IF IsPermanent(err)
            THEN /\ rresult' = err
                 /\ rpc' = "returned"
                 /\ UNCHANGED <<rattempt, rwaits, rwaitEnd>>
            ELSE IF rfn = "bounded"
            THEN /\ rattempt' = rattempt + 1
                 /\ UNCHANGED <<rpc, rresult, rwaits, rwaitEnd>>
            ELSE /\ \E b \in Backoffs(rfn, rattempt) : rwaitEnd' = now + b
                 /\ rwaits' = rwaits + 1
                 /\ rpc' = "wait"
                 /\ UNCHANGED <<rattempt, rresult>>
    /\ UNCHANGED <<rfn, rmax, rtimeout>>
    /\ UNCHANGED <<poolVars, dropped, ctxVars, counterVars, pipeVars, selVars, deferVars>>

\* the select after a failed attempt takes one of its ready cases
RetryWait ==
    /\ rpc = "wait"
    /\ \E o \in WaitOutcomes(rwaitEnd) :
         IF o = "timer"
         THEN /\ rattempt' = rattempt + 1
              /\ rpc' = "loop"
              /\ UNCHANGED rresult
         ELSE /\ rresult' = Err(ctxs, "ctx")
              /\ rpc' = "returned"
              /\ UNCHANGED rattempt
    /\ UNCHANGED <<rfn, rmax, rerrs, rwaits, rwaitEnd, rtimeout>>
    /\ UNCHANGED <<poolVars, dropped, ctxVars, counterVars, pipeVars, selVars, deferVars>>

\* the timeout of ctx passes
RetryDeadline ==
    /\ rfn \in {"backoff", "jitter"}
    /\ rpc \in {"loop", "wait"}
    /\ now >= rtimeout
    /\ ~Done(ctxs, "ctx")
    /\ ctxs' = CtxFire(ctxs, "ctx", "DeadlineExceeded")
    /\ first' = FirstAfter("ctx", "DeadlineExceeded")
    /\ UNCHANGED <<cancelCalls, now, cpc, spc, durs, t0, reqlog>>
    /\ UNCHANGED retryVars
    /\ UNCHANGED <<poolVars, dropped, counterVars, pipeVars, selVars, deferVars>>

\* time passes while the function waits and no case is ready
RetryTick ==
    /\ rpc = "wait"
    /\ WaitOutcomes(rwaitEnd) = {}
    /\ ~(now >= rtimeout /\ ~Done(ctxs, "ctx"))
    /\ now' = now + 1
    /\ UNCHANGED <<ctxs, first, cancelCalls, cpc, spc, durs, t0, reqlog>>
    /\ UNCHANGED retryVars
    /\ UNCHANGED <<poolVars, dropped, counterVars, pipeVars, selVars, deferVars>>

RetryProgramInit ==
    /\ PoolIdle
    /\ CtxIdle
    /\ CounterIdle
    /\ PipeIdle
    /\ SelectIdle
    /\ DeferIdle
    /\ RetryInit

RetryNext ==
    \/ RetryLoopExit
    \/ RetryAttempt
    \/ RetryWait
    \/ RetryDeadline
    \/ RetryTick

RetrySpec == RetryProgramInit /\ [][RetryNext]_vars

\* the function is scheduled and the timers fire
FairRetrySpec == RetrySpec /\ WF_vars(RetryNext)

----------------------------------------------------------------------------
(* The select patterns: main races two goroutines over unbuffered channels, *)
(* then waits for a query with a timeout, then polls stopCh in a loop with  *)
(* a default branch that does a unit of work.  The program ends when main   *)
(* returns from the loop.                                                  *)

MaxDelay == 2

otherThanSelect ==
    <<poolVars, dropped, ctxVars, counterVars, pipeVars, retryVars, deferVars>>

SelectRunning == smpc \in {"race", "timeout", "select", "work"}

\* fastWorker, slowWorker := make(chan string); both goroutines started
SelectInit ==
    /\ smpc = "race"
    /\ snow = 0
    /\ sdur \in [F : 1..MaxDelay, Sl : 1..MaxDelay, Q : 1..MaxDelay,
                 TO : 1..MaxDelay, S : 1..MaxDelay, W : 1..MaxDelay]
    /\ sgpc = [g \in SelectGoroutines |->
                 IF g \in {"fast", "slow"} THEN "sleep" ELSE "none"]
    /\ swake = [g \in SelectGoroutines |->
                  IF g = "fast" THEN sdur.F ELSE IF g = "slow" THEN sdur.Sl ELSE 0]
    /\ stimeout = 0
    /\ sworkEnd = 0
    /\ stopClosed = FALSE
    /\ swork = 0
    /\ slog = <<>>

\* time.Sleep(d) of a sending goroutine ends: it reaches its send
SenderWake(g) ==
    /\ SelectRunning
    /\ g \in {"fast", "slow", "db"}
    /\ sgpc[g] = "sleep"
    /\ snow >= swake[g]
    /\ sgpc' = [sgpc EXCEPT ![g] = "send"]
    /\ UNCHANGED <<smpc, snow, sdur, swake, stimeout, sworkEnd, stopClosed,
                   swork, slog>>
    /\ UNCHANGED otherThanSelect

\* select { case msg := <-fastWorker: ...  case msg := <-slowWorker: ... }
\* then dbQuery is made and its goroutine started
RaceSelect ==
    /\ smpc = "race"
    /\ \E g \in {"fast", "slow"} :
         /\ sgpc[g] = "send"
         /\ sgpc' = [sgpc EXCEPT ![g] = "done", !["db"] = "sleep"]
         /\ slog' = Append(slog, g)
    /\ swake' = [swake EXCEPT !["db"] = snow + sdur.Q]
    /\ stimeout' = snow + sdur.TO
    /\ smpc' = "timeout"
    /\ UNCHANGED <<snow, sdur, sworkEnd, stopClosed, swork>>
    /\ UNCHANGED otherThanSelect

\* select { case res := <-dbQuery: ...  case <-time.After(TO): ... }
\* then stopCh is made and the closing goroutine started
TimeoutSelect ==
    /\ smpc = "timeout"
    /\ \/ /\ sgpc["db"] = "send"
          /\ sgpc' = [sgpc EXCEPT !["db"] = "done", !["stop"] = "sleep"]
          /\ slog' = Append(slog, "db")
       \/ /\ snow >= stimeout
          /\ sgpc' = [sgpc EXCEPT !["stop"] = "sleep"]
          /\ slog' = Append(slog, "timeout")
    /\ swake' = [swake EXCEPT !["stop"] = snow + sdur.S]
    /\ smpc' = "select"
    /\ UNCHANGED <<snow, sdur, stimeout, sworkEnd, stopClosed, swork>>
    /\ UNCHANGED otherThanSelect

\* go func() { time.Sleep(S); close(stopCh) }()
StopClose ==
    /\ SelectRunning
    /\ sgpc["stop"] = "sleep"
    /\ snow >= swake["stop"]
    /\ stopClosed' = TRUE
    /\ sgpc' = [sgpc EXCEPT !["stop"] = "done"]
    /\ UNCHANGED <<smpc, snow, sdur, swake, stimeout, sworkEnd, swork, slog>>
    /\ UNCHANGED otherThanSelect

StopNeverReady == FALSE

\* case <-stopCh is ready: a receive on a closed channel does not block
StopReady == stopClosed

\* select { case <-stopCh: return  default: work++; time.Sleep(W) }
LoopSelect ==
    /\ smpc = "select"
    /\ IF StopReady
       THEN /\ smpc' = "returned"
            /\ slog' = Append(slog, "stop")
            /\ UNCHANGED <<swork, sworkEnd>>
       ELSE /\ swork' = swork + 1
            /\ sworkEnd' = snow + sdur.W
            /\ smpc' = "work"
            /\ UNCHANGED slog
    /\ UNCHANGED <<snow, sdur, sgpc, swake, stimeout, stopClosed>>
    /\ UNCHANGED otherThanSelect

\* time.Sleep(W) of the unit of work ends
WorkDone ==
    /\ smpc = "work"
    /\ snow >= sworkEnd
    /\ smpc' = "select"
    /\ UNCHANGED <<snow, sdur, sgpc, swake, stimeout, sworkEnd, stopClosed,
                   swork, slog>>
    /\ UNCHANGED otherThanSelect

\* main or a goroutine can take a step at this moment
SelectStepReady ==
    \/ \E g \in SelectGoroutines : sgpc[g] = "sleep" /\ snow >= swake[g]
    \/ smpc = "race" /\ \E g \in {"fast", "slow"} : sgpc[g] = "send"
    \/ smpc = "timeout" /\ (sgpc["db"] = "send" \/ snow >= stimeout)
    \/ smpc = "select"
    \/ smpc = "work" /\ snow >= sworkEnd

SelectTick ==
    /\ SelectRunning
    /\ ~SelectStepReady
    /\ snow' = snow + 1
    /\ UNCHANGED <<smpc, sdur, sgpc, swake, stimeout, sworkEnd, stopClosed,
                   swork, slog>>
    /\ UNCHANGED otherThanSelect

SelectProgramInit ==
    /\ PoolIdle
    /\ CtxIdle
    /\ CounterIdle
    /\ PipeIdle
    /\ RetryIdle
    /\ DeferIdle
    /\ SelectInit

SelectNext ==
    \/ \E g \in SelectGoroutines : SenderWake(g)
    \/ RaceSelect
    \/ TimeoutSelect
    \/ StopClose
    \/ LoopSelect
    \/ WorkDone
    \/ SelectTick

SelectSpec == SelectProgramInit /\ [][SelectNext]_vars

\* timers fire and runnable goroutines are scheduled
FairSelectSpec == SelectSpec /\ WF_vars(SelectNext)

----------------------------------------------------------------------------
(* The defer and panic demonstration.  Each function is its list of         *)
(* statements; a frame of the call stack holds the deferred calls it has   *)
(* registered.  A function that ends, by return or by panic, runs its      *)
(* pending deferred calls and is then popped; a panic that is not          *)
(* recovered goes on in the caller, and ends the program when it leaves    *)
(* main.                                                                   *)

MaxLoopDefers == 3

otherThanDefer ==
    <<poolVars, dropped, ctxVars, counterVars, pipeVars, retryVars, selVars>>

Line(text, n) == [text |-> text, n |-> n]

PrintStmt(text) == [op |-> "print", arg |-> text, n |-> 0]
DeferStmt(call, n) == [op |-> "defer", arg |-> call, n |-> n]
CallStmt(fn) == [op |-> "call", arg |-> fn, n |-> 0]
PanicStmt(value) == [op |-> "panic", arg |-> value, n |-> 0]

\* for i := 0; i < dloops; i++ { defer fmt.Println("Deferred loop value:", i) }
LoopDefers == [k \in 1..dloops |-> DeferStmt("Deferred loop value:", k - 1)]

\* the statements of main, in order
MainCode ==
    <<PrintStmt("1. Opening a file...")>>
    \o (IF dcreateFails THEN <<PanicStmt("create error")>> ELSE <<>>)
    \o <<DeferStmt("closeFile", 0),
         PrintStmt("2. Writing data..."),
         PrintStmt("--- Stacked Defers ---"),
         DeferStmt("Cleanup Step 1 (Runs Last)", 0),
         DeferStmt("Cleanup Step 2 (Runs Second)", 0),
         DeferStmt("Cleanup Step 3 (Runs First)", 0),
         PrintStmt("--- Panic Protection ---"),
         CallStmt("safeExecute"),
         PrintStmt("4. Main function continues... Program did not crash!"),
         PrintStmt("--- Defer Argument Evaluation ---"),
         DeferStmt("Deferred x =", 10),
         PrintStmt("Current x ="),
         PrintStmt("--- Defer Inside Loop ---")>>
    \o LoopDefers
    \o <<PrintStmt("--- recover() Scope ---"),
         CallStmt("recoverScope"),
         PrintStmt("--- recover() and Goroutines ---"),
         PrintStmt("Panics must be recovered in the SAME goroutine"),
         PrintStmt("--- Defers During Panic ---"),
         CallStmt("defersDuringPanic"),
         PrintStmt("--- Named Return + Defer ---"),
         CallStmt("namedReturn"),
         PrintStmt("Result:"),
         PrintStmt("--- Panic Value Types ---"),
         CallStmt("panicValue"),
         PrintStmt("--- Re-Panic Pattern ---"),
         CallStmt("rePanic")>>

\* the statements of each function
Code(fn) ==
    CASE fn = "main" -> MainCode
      [] fn = "safeExecute" ->
           <<DeferStmt("safeExecute.recover", 0),
             PrintStmt("   -> About to panic..."),
             PanicStmt("Something went terribly wrong!")>>
      [] fn = "recoverScope" ->
           <<DeferStmt("recoverScope.recover", 0),
             PanicStmt("panic inside anonymous function")>>
      [] fn = "defersDuringPanic" ->
           <<DeferStmt("Deferred 1", 0),
             DeferStmt("Deferred 2", 0),
             PanicStmt("boom")>>
      [] fn = "namedReturn" ->
           <<DeferStmt("addTen", 0)>>
      [] fn = "panicValue" ->
           <<DeferStmt("panicValue.recover", 0),
             PanicStmt("404")>>
      [] fn = "rePanic" ->
           <<DeferStmt("recoverRepanic", 0),
             PanicStmt("fatal error")>>

\* the deferred closures that call recover() and print what they recovered
RecoverCalls ==
    {"safeExecute.recover", "recoverScope.recover", "panicValue.recover"}

RecoverLine(call) ==
    CASE call = "safeExecute.recover" -> "   [RECOVERED] Caught a panic:"
      [] call = "recoverScope.recover" -> "Recovered panic:"
      [] call = "panicValue.recover" -> "Recovered type:"

NewFrame(fn) == [fn |-> fn, ip |-> 1, defers |-> <<>>, reg |-> <<>>, ran |-> <<>>]

Top == dstack[Len(dstack)]

SetTop(fr) == [dstack EXCEPT ![Len(dstack)] = fr]

RemoveAt(sq, k) == SubSeq(sq, 1, k - 1) \o SubSeq(sq, k + 1, Len(sq))

PickOldest(defers) == 1

\* the pending deferred call that runs next: the one registered last
PickDeferred(defers) == Len(defers)

PanicStopsAtCall(p) == "none"

\* the panic in the caller after a frame has unwound without recovering
PanicAfterUnwind(p) == p

DeferInit ==
    /\ dloops \in 0..MaxLoopDefers
    /\ dcreateFails \in BOOLEAN
    /\ dstack = <<NewFrame("main")>>
    /\ dpanic = "none"
    /\ dout = <<>>
    /\ dstatus = "running"

\* the next statement of the function on top of the stack
DeferExec ==
    /\ dstatus = "running"
    /\ dpanic = "none"
    /\ Top.ip <= Len(Code(Top.fn))
    /\ LET st == Code(Top.fn)[Top.ip]
           fr == [Top EXCEPT !.ip = @ + 1] IN
       CASE st.op = "print" ->
              /\ dout' = Append(dout, Line(st.arg, st.n))
              /\ dstack' = SetTop(fr)
              /\ UNCHANGED dpanic
         [] st.op = "defer" ->
              /\ dstack' = SetTop([fr EXCEPT
                                     !.defers = Append(@, Line(st.arg, st.n)),
                                     !.reg = Append(@, Line(st.arg, st.n))])
              /\ UNCHANGED <<dout, dpanic>>
         [] st.op = "call" ->
              /\ dstack' = Append(SetTop(fr), NewFrame(st.arg))
              /\ UNCHANGED <<dout, dpanic>>
         [] st.op = "panic" ->
              /\ dpanic' = st.arg
              /\ UNCHANGED <<dout, dstack>>
    /\ UNCHANGED <<dstatus, dloops, dcreateFails>>
    /\ UNCHANGED otherThanDefer

\* the function on top of the stack is ending (it returned or it panics):
\* one of its pending deferred calls runs
DeferRunDeferred ==
    /\ dstatus = "running"
    /\ dpanic # "none" \/ Top.ip > Len(Code(Top.fn))
    /\ Top.defers # <<>>
    /\ LET k == PickDeferred(Top.defers)
           d == Top.defers[k]
           fr == [Top EXCEPT !.defers = RemoveAt(@, k), !.ran = Append(@, d)] IN
       CASE d.text \in RecoverCalls ->
              IF dpanic # "none"
              THEN /\ dout' = Append(dout, Line(RecoverLine(d.text), 0))
                   /\ dpanic' = "none"
                   /\ dstack' = SetTop([fr EXCEPT !.ip = Len(Code(Top.fn)) + 1])
              ELSE /\ dstack' = SetTop(fr)
                   /\ UNCHANGED <<dout, dpanic>>
         [] d.text = "recoverRepanic" ->
              IF dpanic # "none"
              THEN /\ dout' = Append(dout, Line("Logging panic:", 0))
                   /\ dstack' = SetTop(fr)
                   /\ UNCHANGED dpanic
              ELSE /\ dstack' = SetTop(fr)
                   /\ UNCHANGED <<dout, dpanic>>
         [] d.text = "addTen" ->
              /\ dstack' = SetTop(fr)
              /\ UNCHANGED <<dout, dpanic>>
         [] d.text = "closeFile" ->
              /\ dout' = Append(dout, Line("3. Defer Triggered: Closing file now.", 0))
              /\ dstack' = SetTop(fr)
              /\ UNCHANGED dpanic
         [] OTHER ->
              /\ dout' = Append(dout, d)
              /\ dstack' = SetTop(fr)
              /\ UNCHANGED dpanic
    /\ UNCHANGED <<dstatus, dloops, dcreateFails>>
    /\ UNCHANGED otherThanDefer

\* the function on top of the stack has run all its deferred calls: it
\* returns to its caller, or the panic goes on in the caller; when the
\* function is main the program ends
DeferPopFrame ==
    /\ dstatus = "running"
    /\ dpanic # "none" \/ Top.ip > Len(Code(Top.fn))
    /\ Top.defers = <<>>
    /\ IF Len(dstack) = 1
       THEN /\ dstatus' = IF dpanic # "none" THEN "crashed" ELSE "exited"
            /\ UNCHANGED <<dstack, dpanic>>
       ELSE /\ dstack' = SubSeq(dstack, 1, Len(dstack) - 1)
            /\ dpanic' = IF dpanic # "none" THEN PanicAfterUnwind(dpanic)
                         ELSE "none"
            /\ UNCHANGED dstatus
    /\ UNCHANGED <<dout, dloops, dcreateFails>>
    /\ UNCHANGED otherThanDefer

DeferProgramInit ==
    /\ PoolIdle
    /\ CtxIdle
    /\ CounterIdle
    /\ PipeIdle
    /\ RetryIdle
    /\ SelectIdle
    /\ DeferInit

DeferNext ==
    \/ DeferExec
    \/ DeferRunDeferred
    \/ DeferPopFrame

DeferSpec == DeferProgramInit /\ [][DeferNext]_vars

\* the goroutine keeps running while it can
FairDeferSpec == DeferSpec /\ WF_vars(DeferNext)

----------------------------------------------------------------------------
(* Observations used by the properties.                                    *)

IDsOf(s) == [n \in 1..Len(s) |-> s[n].ID]

CountIn(s, id) == Cardinality({n \in 1..Len(s) : s[n].JobID = id})

HeldCount(id) ==
    Cardinality({k \in 1..Len(wpc) : wpc[k] \in {"work", "send"} /\ wjob[k].ID = id})

\* the number of Jobs being executed: workers between dequeue and Result
Executing == Cardinality({k \in 1..Len(wpc) : wpc[k] \in {"work", "send"}})

InQueue(id) == \E n \in 1..Len(jobs.buf) : jobs.buf[n].ID = id

Submitted(id) == \E n \in 1..Len(enq) : enq[n] = id

AllCollectedOnce == \A id \in JobIDs : CountIn(collected, id) = 1

----------------------------------------------------------------------------
\* C1: every submitted Job yields exactly one Result that the collector
\* receives: at no time do two Results (or executions) exist for one JobID,
\* and each submitted Job's Result is eventually among the collected ones.
C1_ExactlyOnce ==
    /\ [](\A id \in JobIDs :
            HeldCount(id) + CountIn(results.buf, id) + CountIn(collected, id) <= 1)
    /\ \A id \in JobIDs : (Submitted(id) ~> (CountIn(collected, id) = 1))

C1_Witness == mpc = "done" /\ AllCollectedOnce /\ Len(collected) = numJobs

\* C2: the jobs queue never holds more Jobs than its capacity, and the
\* capacity fixed at construction never changes.
C2_Capacity ==
    /\ [](Len(jobs.buf) <= jobs.cap)
    /\ [][jobs'.cap = jobs.cap]_vars

C2_Witness == Len(jobs.buf) = jobs.cap /\ Len(enq) > jobs.cap

\* C3: a send on the jobs queue completes only when the queue holds fewer
\* Jobs than its capacity; while the queue is full the producer does not
\* advance, and a full queue stops being full only by a worker's dequeue.
C3_Backpressure ==
    [][ /\ (enq' # enq => Len(jobs.buf) < jobs.cap)
        /\ (Full(jobs) => (j' = j /\ enq' = enq))
        /\ ((Full(jobs) /\ ~Full(jobs')) =>
               \E k \in 1..Len(wpc) :
                   /\ wpc[k] = "range"
                   /\ wpc'[k] = "work"
                   /\ Len(deq') = Len(deq) + 1) ]_vars

C3_Witness == mpc = "produce" /\ ProduceMore(j) /\ Full(jobs) /\ ~jobs.closed

\* C4: Jobs leave the queue in the order they entered it: the Jobs dequeued
\* so far followed by the Jobs still queued are the Jobs enqueued, in order.
C4_FIFO == deq \o IDsOf(jobs.buf) = enq

C4_Witness ==
    /\ Len(deq) = numJobs
    /\ \A k \in 1..Len(wpc) : wpc[k] \in {"work", "send"}

\* C5: exactly numWorkers workers are started and their number does not
\* change afterwards; never more than numWorkers Jobs are executed at once.
C5_BoundedConcurrency ==
    /\ Len(wpc) <= numWorkers
    /\ (mpc # "spawn" => Len(wpc) = numWorkers)
    /\ Executing <= numWorkers

C5_Witness == Executing = numWorkers /\ Len(jobs.buf) > 0

\* C6: closing the queue discards nothing: the close leaves the queued Jobs
\* in place, every Job queued at a time the queue is closed is eventually
\* collected, and when the collection step returns all Results were seen.
C6_GracefulDrain ==
    /\ [][(~jobs.closed /\ jobs'.closed) => jobs'.buf = jobs.buf]_vars
    /\ \A id \in JobIDs :
         [](( jobs.closed /\ InQueue(id)) => <>(CountIn(collected, id) = 1))
    /\ [](mpc = "done" => AllCollectedOnce)

C6_Witness == jobs.closed /\ Len(jobs.buf) = numJobs

\* C7: when the program has finished, every worker has left its loop.
C7_WorkersExit ==
    mpc = "done" => \A k \in 1..Len(wpc) : wpc[k] = "stopped"

\* C8: the jobs queue is closed once, by main, after the last submission:
\* the step that closes it is main's step after numJobs sends, nothing is
\* sent once it is closed, it never reopens, and nothing panics.
C8_ClosedOnceByOwner ==
    [][ /\ ((~jobs.closed /\ jobs'.closed) =>
               (mpc = "produce" /\ mpc' = "collect" /\ Len(enq) = numJobs))
        /\ (jobs.closed => (jobs'.closed /\ enq' = enq))
        /\ closes' <= 1
        /\ ~panicked' ]_vars

C8_Witness == jobs.closed /\ closes = 1 /\ Len(enq) = numJobs /\ mpc = "collect"

\* C9: Close is idempotent: a Close of the already closed queue does not
\* panic.  The queue is a plain channel, so the second close(ch) panics.
C9_CloseIdempotent ==
    (lastOp.op = "close" /\ lastOp.closedBefore) =>
        (lastOp.outcome = "ok" /\ ~panicked)

\* C10: a send attempted on the closed queue ends with a QueueClosed error
\* for the caller, without a panic.  The send is a raw channel send, which
\* panics on the closed channel.
C10_SubmitAfterCloseFails ==
    (lastOp.op = "send" /\ lastOp.closedBefore) =>
        (lastOp.outcome = "QueueClosed" /\ ~panicked)

Dropped(id) == \E n \in 1..Len(dropped) : dropped[n] = id

\* C11: no offered Job disappears silently: every Job the caller has moved
\* past is either enqueued or reported as dropped (never both, never
\* neither); the caller moves past a Job only by enqueuing it or, for the
\* non-blocking send on a full queue, by reporting the drop.
C11_NoSilentDrop ==
    /\ [](\A id \in JobIDs : id < j => (Submitted(id) # Dropped(id)))
    /\ [][ j' = j + 1 =>
             \/ /\ enq' = Append(enq, j)
                /\ jobs'.buf = Append(jobs.buf, Job(j))
                /\ dropped' = dropped
             \/ /\ Full(jobs)
                /\ dropped' = Append(dropped, j)
                /\ lastOp'.outcome = "dropped"
                /\ jobs' = jobs /\ enq' = enq ]_vars

C11_Witness ==
    /\ lastOp.op = "offer"
    /\ lastOp.outcome = "dropped"
    /\ Full(jobs)
    /\ Len(dropped) > 0
    /\ Len(enq) > 0

\* C13: once the cancellation scope has fired, a worker stops waiting and
\* exits: the only step a worker still takes is leaving its loop.
C13_WorkersInterruptible ==
    [][Done(ctxs, "ctx2") =>
         \A k \in 1..Len(wpc) : (wpc'[k] = wpc[k] \/ wpc'[k] = "stopped")]_vars

\* C14: a context that is done stays done with the same Err(): further
\* calls of cancel, and a cancel after the deadline, change nothing, so each
\* context becomes done at most once and Err() never reverts.
C14_CancelMonotonic ==
    [][\A c \in ContextNames : ctxs[c].done => ctxs'[c] = ctxs[c]]_vars

C14_Witness ==
    /\ cpc = "done"
    /\ Err(ctxs, "ctx") = "DeadlineExceeded"
    /\ cancelCalls["ctx"] = 1

\* C15: Err() is nil exactly while the context is not done; once done it is
\* the cause that reached the context first, DeadlineExceeded or Canceled,
\* and makeRequest reports an abort with that cause.
C15_ErrReportsFirstCause ==
    /\ \A c \in ContextNames :
         /\ Done(ctxs, c) <=> Err(ctxs, c) # "nil"
         /\ Err(ctxs, c) = first[c]
    /\ \A n \in 1..Len(reqlog) :
         reqlog[n].outcome = "aborted" =>
             reqlog[n].err \in {"DeadlineExceeded", "Canceled"}

C15_Witness ==
    /\ cpc = "done"
    /\ Len(reqlog) = 2
    /\ reqlog[1].err = "DeadlineExceeded"
    /\ reqlog[2].err = "Canceled"
    /\ Err(ctxs, "ctx") = "DeadlineExceeded"
    /\ Err(ctxs, "ctx2") = "Canceled"

\* a Result for Job id has been sent (waiting in results or collected)
Produced(id) == CountIn(results.buf, id) + CountIn(collected, id) > 0

\* C19: with several workers the order of Results is not the order of
\* submission: the only constraint is that a Job overtaken by a later one
\* is at that time held by another worker (it was dequeued first and its
\* Result is still to come); a run in which the collector receives a later
\* Job's Result first is reachable.
C19_OvertakenJobsInFlight ==
    \A a, b \in JobIDs :
        (a < b /\ Produced(b) /\ ~Produced(a)) => HeldCount(a) = 1

C19_Witness ==
    \E p, q \in 1..Len(collected) :
        p < q /\ collected[p].JobID > collected[q].JobID

\* the increments the first n goroutines still have to do
RECURSIVE SumLeft(_)
SumLeft(n) == IF n = 0 THEN 0 ELSE gleft[n] + SumLeft(n - 1)

\* C17: with a synchronized counter (mutex or atomic) the value read after
\* all numGoroutines goroutines have done incrementsPerG increments each and
\* main has waited for them is numGoroutines * incrementsPerG; at any time
\* the value is the number of increments completed so far.
C17_SynchronizedCounterExact ==
    cmode \in {"mutex", "atomic"} =>
        /\ cmainpc = "done" => cresult = numGoroutines * incrementsPerG
        /\ (\A g \in 1..Len(gpc) : gpc[g] \in {"inc", "read", "exit", "done"})
             => cvalue + SumLeft(Len(gleft)) = Len(gleft) * incrementsPerG

C17_Witness ==
    /\ cmainpc = "done"
    /\ cmode = "mutex"
    /\ cresult = numGoroutines * incrementsPerG

\* C20: with the unsynchronized counter an increment stores the value it
\* read plus one, whatever was written in between, so updates can be lost:
\* the final value never exceeds the number of increments and a run with a
\* smaller final value is reachable.
C20_UnsynchronizedLosesUpdates ==
    /\ [][(cmode = "unsafe" /\ cvalue' # cvalue) =>
            \E g \in 1..Len(gpc) :
                /\ gpc[g] = "write" /\ gpc'[g] # "write"
                /\ cvalue' = gtmp[g] + 1]_vars
    /\ []((cmode = "unsafe" /\ cmainpc = "done") =>
            cresult \in 1..(numGoroutines * incrementsPerG))

C20_Witness ==
    /\ cmainpc = "done"
    /\ cmode = "unsafe"
    /\ cresult < numGoroutines * incrementsPerG

\* C18: the single pipeline worker emits exactly one output 2 * v for each
\* input v, in input order: what the test has received is always the
\* doubled prefix of the inputs, every run ends with all doubled inputs
\* received, and for the inputs 1..n the results are 2, 4, ..., 2n.
C18_PipelineDoublesInOrder ==
    /\ [](/\ Len(presults) <= psent
          /\ psent <= Len(presults) + 1
          /\ presults = [n \in 1..Len(presults) |-> 2 * pinputs[n]])
    /\ [](ppc = "done" =>
            /\ presults = [n \in 1..Len(pinputs) |-> 2 * pinputs[n]]
            /\ (pinputs = [n \in 1..Len(pinputs) |-> n] =>
                    presults = [n \in 1..Len(pinputs) |-> 2 * n]))
    /\ <>(ppc = "done")

C18_Witness ==
    /\ ppc = "done"
    /\ pinputs = <<1, 2, 3>>
    /\ presults = <<2, 4, 6>>
    /\ pwpc = "stopped"

Min(a, b) == IF a <= b THEN a ELSE b

\* the time at which the n-th request of main started
RequestStart(n) == IF n = 1 THEN 0 ELSE reqlog[1].at

\* the time at which the n-th request's work duration has elapsed
RequestEnd(n) == RequestStart(n) + (IF n = 1 THEN durs.D1 ELSE durs.D2)

\* the time at which the n-th request's context becomes done: the deadline
\* of ctx, or the stop() call S after the second request started
RequestCtxDone(n) == IF n = 1 THEN durs.T ELSE RequestStart(n) + durs.S

\* C21: makeRequest always returns, at the earlier of the end of its work
\* duration and its context becoming done; it reports completion only if
\* the duration had elapsed no later than the context fired, and an abort
\* with the context's error (DeadlineExceeded for the timeout, Canceled for
\* stop()) only if the context fired no later than the duration elapsed.
C21_MakeRequestReturns ==
    /\ [](\A n \in 1..Len(reqlog) :
            /\ reqlog[n].at = Min(RequestEnd(n), RequestCtxDone(n))
            /\ reqlog[n].outcome = "completed" =>
                 /\ RequestEnd(n) <= RequestCtxDone(n)
                 /\ reqlog[n].err = "nil"
            /\ reqlog[n].outcome = "aborted" =>
                 /\ RequestCtxDone(n) <= RequestEnd(n)
                 /\ reqlog[n].err =
                      (IF n = 1 THEN "DeadlineExceeded" ELSE "Canceled"))
    /\ <>(Len(reqlog) = 2)

C21_Witness ==
    /\ Len(reqlog) = 2
    /\ reqlog[1].outcome = "completed"
    /\ reqlog[2].outcome = "aborted"
    /\ reqlog[2].at < RequestEnd(2)

\* the Jobs accepted by the queue whose Result has not been sent yet
InFlight == Len(enq) - (Len(results.buf) + Len(collected))

\* C28: the Jobs accepted by the queue and not yet finished, resident in
\* the queue or held by a worker, never number more than the queue's
\* capacity plus numWorkers; so the (capacity + numWorkers + 1)-th send
\* has completed only after some worker has delivered a Result.
C28_InFlightBound ==
    /\ Len(jobs.buf) + Executing <= jobs.cap + numWorkers
    /\ InFlight = Len(jobs.buf) + Executing
    /\ Len(enq) > jobs.cap + numWorkers =>
           Len(results.buf) + Len(collected) >= 1

C28_Witness ==
    /\ mpc = "produce"
    /\ ProduceMore(j)
    /\ Full(jobs)
    /\ Executing = numWorkers
    /\ Len(enq) = jobs.cap + numWorkers
    /\ Len(results.buf) = 0

\* C29: the results channel never holds more than its capacity numJobs,
\* and a worker that is about to send its Result always finds room: the
\* send on results never blocks, even though main starts receiving only
\* after it has sent all Jobs and closed the queue.
C29_ResultsSendNeverBlocks ==
    /\ Len(results.buf) <= numJobs
    /\ \A k \in 1..Len(wpc) :
         wpc[k] = "send" =>
             Len(results.buf) + Cardinality({x \in 1..Len(wpc) : wpc[x] = "send"})
                 <= results.cap

C29_Witness ==
    /\ Len(results.buf) = numJobs
    /\ mpc = "collect"
    /\ i = 1

\* every call of flakyOperation so far failed with the temporary error
AllTemporary == \A n \in 1..Len(rerrs) : rerrs[n] = ErrTemporaryFailure

\* C22 as stated: whenever every attempt failed with the temporary error
\* the function returns the 'retry limit exceeded' error.
C22_AllTemporaryGivesLimit ==
    (rpc = "returned" /\ AllTemporary) => rresult = ErrRetryLimit

\* C22: the retry functions call the operation at most maxAttempts times
\* and always return; they return nil exactly when the last attempt
\* succeeded (every attempt before it failed with the temporary error);
\* they return 'retry limit exceeded' only after maxAttempts temporary
\* failures.  With every attempt failing temporarily boundedRetry returns
\* 'retry limit exceeded', while retryWithBackoff and retryWithJitter
\* return either that or, when the context fired during a backoff wait
\* (also the wait after the last attempt), the context's error.
C22_BoundedRetryOrContext ==
    /\ [](Len(rerrs) <= rmax)
    /\ [](\A n \in 1..(Len(rerrs) - 1) : rerrs[n] = ErrTemporaryFailure)
    /\ [](rpc = "returned" =>
            /\ rresult = "nil" <=> (rerrs # <<>> /\ rerrs[Len(rerrs)] = "nil")
            /\ rresult = ErrRetryLimit => (Len(rerrs) = rmax /\ AllTemporary)
            /\ (AllTemporary /\ rfn = "bounded") => rresult = ErrRetryLimit
            /\ (AllTemporary /\ rfn # "bounded") =>
                 \/ rresult = ErrRetryLimit
                 \/ /\ rresult = "DeadlineExceeded"
                    /\ Done(ctxs, "ctx")
                    /\ rwaits = Len(rerrs))
    /\ <>(rpc = "returned")

C22_Witness ==
    /\ rpc = "returned"
    /\ rfn = "backoff"
    /\ rmax >= 2
    /\ Len(rerrs) = rmax
    /\ AllTemporary
    /\ rresult = "DeadlineExceeded"

\* C23: a permanent failure is never retried: the step in which
\* flakyOperation returns ErrPermanentFailure is the step in which the
\* function returns that error, without starting a backoff wait; so a
\* permanent failure is only ever the last entry of the call history.
C23_PermanentNotRetried ==
    /\ [][(Len(rerrs') = Len(rerrs) + 1
             /\ rerrs'[Len(rerrs')] = ErrPermanentFailure) =>
               /\ rpc' = "returned"
               /\ rresult' = ErrPermanentFailure
               /\ rwaits' = rwaits]_vars
    /\ [](\A n \in 1..Len(rerrs) :
            rerrs[n] = ErrPermanentFailure =>
                /\ n = Len(rerrs)
                /\ rpc = "returned"
                /\ rresult = ErrPermanentFailure)

C23_Witness ==
    /\ rpc = "returned"
    /\ rfn = "backoff"
    /\ rresult = ErrPermanentFailure
    /\ Len(rerrs) >= 2
    /\ rwaits = Len(rerrs) - 1

\* C24: when the context is done while the function waits out a backoff
\* delay that has not elapsed yet, the only step the function takes is to
\* return the context's error, with no further call of the operation; a
\* returned context error means the context was done.
C24_ContextStopsRetries ==
    /\ [][(rpc = "wait" /\ Done(ctxs, "ctx") /\ now < rwaitEnd) =>
            /\ rpc' = "returned"
            /\ rresult' = Err(ctxs, "ctx")
            /\ rerrs' = rerrs]_vars
    /\ [](rresult = "DeadlineExceeded" =>
            /\ rpc = "returned"
            /\ Done(ctxs, "ctx")
            /\ rfn \in {"backoff", "jitter"})

C24_Witness ==
    /\ rpc = "returned"
    /\ rfn = "jitter"
    /\ rresult = "DeadlineExceeded"
    /\ Len(rerrs) < rmax
    /\ now < rwaitEnd

\* C25: once stopCh is closed the loop starts no further unit of work: the
\* select that runs with stopCh closed takes the stop branch and main
\* returns; the unit of work in progress at the close is finished first;
\* and the loop always terminates after the close.
C25_StopSignalLoop ==
    /\ [][stopClosed => swork' = swork]_vars
    /\ [][(stopClosed /\ smpc = "select" /\ smpc' # smpc) =>
              smpc' = "returned"]_vars
    /\ [][(stopClosed /\ smpc = "work" /\ smpc' # smpc) =>
              (smpc' = "select" /\ snow >= sworkEnd)]_vars
    /\ [](smpc = "returned" => stopClosed)
    /\ (stopClosed ~> smpc = "returned")
    /\ <>(stopClosed)

C25_Witness ==
    /\ smpc = "returned"
    /\ stopClosed
    /\ swork >= 2
    /\ snow >= sworkEnd
    /\ snow > swake["stop"]

\* main is at the select that receives from goroutine g's channel
Receiving(g) ==
    \/ g \in {"fast", "slow"} /\ smpc = "race"
    \/ g = "db" /\ smpc = "timeout"

\* C26: no goroutine is left blocked on a send that nobody will receive:
\* a goroutine waits at its send only while main is still at the select
\* that receives from its channel.
C26_NoLeakedGoroutine ==
    \A g \in {"fast", "slow", "db"} : sgpc[g] = "send" => Receiving(g)

\* the position of a line in the output, 0 when it was not printed
PosInOut(text) ==
    IF \E k \in 1..Len(dout) : dout[k].text = text
    THEN CHOOSE k \in 1..Len(dout) : dout[k].text = text
    ELSE 0

\* C27: the deferred calls of a function run in the reverse order of their
\* registration, whether the function returns or unwinds in a panic: in
\* every frame the calls still pending are the first ones registered and
\* the k-th call run is the k-th last registered.  In the output, Cleanup
\* Step 3, 2, 1 appear in this order and Deferred 2 before Deferred 1.
C27_DefersRunLIFO ==
    /\ \A f \in 1..Len(dstack) :
         LET fr == dstack[f]
             g == Len(fr.reg)
             r == Len(fr.ran) IN
         /\ r <= g
         /\ fr.defers = SubSeq(fr.reg, 1, g - r)
         /\ \A k \in 1..r : fr.ran[k] = fr.reg[g + 1 - k]
    /\ (dstatus = "crashed" /\ ~dcreateFails) =>
         /\ 0 < PosInOut("Deferred 2")
         /\ PosInOut("Deferred 2") < PosInOut("Deferred 1")
         /\ PosInOut("Deferred 1") < PosInOut("Cleanup Step 3 (Runs First)")
         /\ PosInOut("Cleanup Step 3 (Runs First)")
              < PosInOut("Cleanup Step 2 (Runs Second)")
         /\ PosInOut("Cleanup Step 2 (Runs Second)")
              < PosInOut("Cleanup Step 1 (Runs Last)")
         /\ \A a, b \in 1..Len(dout) :
              (dout[a].text = "Deferred loop value:"
                 /\ dout[b].text = "Deferred loop value:" /\ a < b)
                   => dout[a].n > dout[b].n

C27_Witness ==
    /\ Len(dstack) = 1
    /\ dpanic = "boom"
    /\ dloops >= 2
    /\ Len(Top.ran) = Len(Top.reg)
    /\ Len(Top.reg) = dloops + 5
    /\ Top.ran[1] = Line("Deferred loop value:", dloops - 1)
    /\ Top.ran[Len(Top.ran)] = Line("closeFile", 0)

\* what is printed from the panic of the 'Defers During Panic' section on
ExpectedUnwind ==
    <<Line("Deferred 2", 0), Line("Deferred 1", 0)>>
    \o [k \in 1..dloops |-> Line("Deferred loop value:", dloops - k)]
    \o <<Line("Deferred x =", 10),
         Line("Cleanup Step 3 (Runs First)", 0),
         Line("Cleanup Step 2 (Runs Second)", 0),
         Line("Cleanup Step 1 (Runs Last)", 0),
         Line("3. Defer Triggered: Closing file now.", 0)>>

\* every line the sections after 'Defers During Panic' print
LaterSections ==
    {"--- Named Return + Defer ---", "Result:", "--- Panic Value Types ---",
     "Recovered type:", "--- Re-Panic Pattern ---", "Logging panic:"}

\* C30: the panic of the 'Defers During Panic' section is not recovered:
\* after that function's deferred calls (Deferred 2, Deferred 1) main's
\* pending deferred calls run, last registered first and closeFile last,
\* and the program ends with the panic; main never returns normally and
\* nothing of the later sections (named return, panic value, re-panic) is
\* ever executed.
C30_PanicReachesMain ==
    /\ [](\A k \in 1..Len(dout) : dout[k].text \notin LaterSections)
    /\ [](\A f \in 1..Len(dstack) :
            dstack[f].fn \notin {"namedReturn", "panicValue", "rePanic"})
    /\ [](dstatus # "exited")
    /\ []((dstatus = "crashed" /\ ~dcreateFails) =>
            /\ dpanic = "boom"
            /\ Len(dout) > Len(ExpectedUnwind)
            /\ SubSeq(dout, Len(dout) - Len(ExpectedUnwind) + 1, Len(dout))
                 = ExpectedUnwind
            /\ dout[Len(dout) - Len(ExpectedUnwind)].text
                 = "--- Defers During Panic ---")
    /\ <>(dstatus = "crashed")

C30_Witness ==
    /\ dstatus = "crashed"
    /\ dpanic = "boom"
    /\ dloops >= 1
    /\ dout[Len(dout)] = Line("3. Defer Triggered: Closing file now.", 0)
    /\ PosInOut("4. Main function continues... Program did not crash!") > 0

====
